---- MODULE Spec2Model ----
(***************************************************************************)
(* ARM debug interface communication layer of probe-rs:                    *)
(* probe-rs/src/architecture/arm/communication_interface.rs                *)
(*                                                                         *)
(* A 32-bit register value is the pair <<hi, lo>> of its two 16-bit        *)
(* halves, so that bit 31 stays representable.                             *)
(***************************************************************************)
EXTENDS Integers, Sequences, FiniteSets, TLC

\* ------------------------------------------------------------------ bounds
MaxBlock == 2        \* longest block transfer
MaxHandles == 2      \* handles (Rc clones) alive at once
MaxRun == 3          \* longest run of same-pair accesses that is counted
MaxPorts == 2        \* most Access Ports an enumeration returns
MaxConversions == 2  \* longest chain of PortType conversions
MaxSample == 300     \* the wire values tried: this many from either end of u16

\* ------------------------------------------------------------ input sets
ApNumbers == {0, 3}                    \* port.get_port_number()
Handles == 1 .. MaxHandles
Cells == {1, 2}                        \* heap cells an Rc can point to

\* DapError, the failures a wire operation can return
Errors == {"SwdProtocol", "NoAcknowledge", "FaultResponse", "WaitResponse"}
Results == {"Ok"} \cup Errors
BlockErrors == {"FaultResponse"}       \* the failure tried inside a block
SeqErrors == {"WaitResponse"}          \* the failure tried in SpecSeq, SpecShared

\* ------------------------------------------------------- 32-bit registers
Word0 == <<0, 0>>

Pow2(i) == 2 ^ i

bit(w, i) == IF i < 16 THEN (w[2] \div Pow2(i)) % 2 ELSE (w[1] \div Pow2(i - 16)) % 2

set_bit(w, i) ==
    IF bit(w, i) = 1 THEN w
    ELSE IF i < 16 THEN <<w[1], w[2] + Pow2(i)>> ELSE <<w[1] + Pow2(i - 16), w[2]>>

\* Select: ap_sel 31..24, ap_bank_sel 7..4, dp_bank_sel 3..0
ap_sel(w) == w[1] \div 256
ap_bank_sel(w) == (w[2] \div 16) % 16
dp_bank_sel(w) == w[2] % 16
set_ap_sel(w, v) == <<(v % 256) * 256 + (w[1] % 256), w[2]>>
set_ap_bank_sel(w, v) == <<w[1], (w[2] \div 256) * 256 + (v % 16) * 16 + (w[2] % 16)>>
set_dp_bank_sel(w, v) == <<w[1], (w[2] \div 16) * 16 + (v % 16)>>

\* Abort: orunerrclr 4, wderrclr 3, stkerrclr 2, stkcmpclr 1
set_orunerrclr(w) == set_bit(w, 4)
set_wderrclr(w) == set_bit(w, 3)
set_stkerrclr(w) == set_bit(w, 2)
set_stkcmpclr(w) == set_bit(w, 1)

\* Ctrl: csyspwrupack 31, csyspwrupreq 30, cdbgpwrupack 29, cdbgpwrupreq 28
csyspwrupack(w) == bit(w, 31) = 1
cdbgpwrupack(w) == bit(w, 29) = 1
set_csyspwrupreq(w) == set_bit(w, 30)
set_cdbgpwrupreq(w) == set_bit(w, 28)

\* Register::ADDRESS of the Debug Port registers
DPIDR == [NAME |-> "DPIDR", ADDRESS |-> 0]
Abort == [NAME |-> "ABORT", ADDRESS |-> 0]
Ctrl == [NAME |-> "CTRL/STAT", ADDRESS |-> 4]
Select == [NAME |-> "SELECT", ADDRESS |-> 8]
TARGETID == [NAME |-> "TARGETID", ADDRESS |-> 4]
DpRegisters == {DPIDR, Abort, Ctrl, Select, TARGETID}

\* the Debug Port bank a register lies in: TARGETID shares slot 4 with
\* CTRL/STAT and is reached through bank 2
DPBANKSEL(R) == IF R = TARGETID THEN 2 ELSE 0

\* Access Port register types: Register::ADDRESS and APRegister::APBANKSEL
R0 == [NAME |-> "R0", ADDRESS |-> 0, APBANKSEL |-> 0]
R1 == [NAME |-> "R1", ADDRESS |-> 4, APBANKSEL |-> 1]
R2 == [NAME |-> "R2", ADDRESS |-> 12, APBANKSEL |-> 2]
ApRegisters == {R0, R1, R2}

\* the registers chip identification reads: bank 0xF, slots 0xC, 0x8, 0x0
IDR == [NAME |-> "IDR", ADDRESS |-> 12, APBANKSEL |-> 15]
BASE == [NAME |-> "BASE", ADDRESS |-> 8, APBANKSEL |-> 15]
BASE2 == [NAME |-> "BASE2", ADDRESS |-> 0, APBANKSEL |-> 15]

\* IDR: CLASS 16..13; APClass::MEMAP
CLASS(w) == (w[1] % 2) * 8 + (w[2] \div 8192)
MEMAP == 8

\* BASE: BASEADDR 31..12, Format 1; BaseaddrFormat::{Legacy, ADIv5}
BASEADDR(w) == w[1] * 16 + (w[2] \div 4096)
Format(w) == bit(w, 1)
Legacy == 0
ADIv5 == 1

\* ---------------------------------------------------------------- PortType
DebugPort == <<"DebugPort">>
AccessPort(n) == <<"AccessPort", n>>

U16 == 0 .. 65535
WireValues == (0 .. MaxSample) \cup (65535 - MaxSample .. 65535)
PortTypes == {DebugPort} \cup {AccessPort(n) : n \in WireValues}

\* every wire value is an Access Port number
decode_all_access(value) == AccessPort(value)

\* From<u16> for PortType
decode(value) == IF value = 65535 THEN DebugPort ELSE AccessPort(value)

\* From<PortType> for u16
encode(value) == IF value = DebugPort THEN 65535 ELSE value[2]

\* a PortType or a u16 at hand
OfPortType(value) == [ty |-> "PortType", pt |-> value, u16 |-> 0]
OfU16(value) == [ty |-> "u16", pt |-> DebugPort, u16 |-> value]

\* ------------------------------------------------------ values on the wire
DpidrValues == {Word0, <<11168, 5239>>}                    \* 0x2BA01477
CtrlValues ==                                               \* readbacks
    { <<20480, 0>>, <<53248, 0>>, <<28672, 0>>, <<61440, 0>> }
ApValues == {Word0, <<1, 2>>}
IdrValues == { <<1143, 33>>, <<648, 0>> }          \* 0x04770021, 0x02880000
BaseValues ==                  \* 0xE00FF003, 0xE00FF001, 0xFFFFF002, 0x00001000
    { <<57359, 61443>>, <<57359, 61441>>, <<65535, 61442>>, <<0, 4096>> }
Base2Values == {Word0, <<32768, 1>>}

\* what CSComponent::try_parse can hand back
Component(class, present, cc, id, part) ==
    [class |-> class, present |-> present, cc |-> cc, id |-> id, part |-> part]
NoComponent == Component("none", FALSE, 0, 0, 0)
Components ==
    { Component("Class1RomTable", TRUE, 4, 59, 4660),
      Component("Class1RomTable", TRUE, 0, 32, 1),
      Component("Class1RomTable", FALSE, 0, 0, 4660),
      Component("GenericIPComponent", TRUE, 4, 59, 4660) }
ParseOutcomes ==
    {[res |-> "Ok", comp |-> x] : x \in Components}
        \cup {[res |-> "RomTableError", comp |-> NoComponent]}
DpWriteValues == {Word0, set_ap_bank_sel(set_ap_sel(Word0, 3), 1)}

ReadOutcomes(vals, errs) ==
    {[res |-> "Ok", value |-> v] : v \in vals}
        \cup {[res |-> e, value |-> Word0] : e \in errs}

\* the outcomes of a block: what follows the first failure is never asked for
ReadsUpToFailure(o) == \A i \in 2 .. Len(o) : o[i - 1].res # "Ok" => o[i] = o[i - 1]
WritesUpToFailure(r) == \A i \in 2 .. Len(r) : r[i - 1] # "Ok" => r[i] = r[i - 1]

SeqsOf(S, lens) == UNION {[1 .. k -> S] : k \in lens}

VARIABLES
    has_dap,            \* probe.get_interface_dap().is_some()
    probe,              \* who owns the Probe
    handles,            \* live ArmCommunicationInterface values
    inner,              \* handle -> the cell its Rc points to
    current_apsel,      \* cell -> InnerArmCommunicationInterface.current_apsel
    current_apbanksel,  \* cell -> .current_apbanksel
    hw_select,          \* the target's SELECT register
    wire,               \* wire operations of the latest register operation
    last,               \* the latest register operation: arguments and result
    step,               \* the operation just made
    reclaim,            \* the result of the latest close(), and whether one was refused
    recent,             \* the latest consecutive successful AP accesses
    run,                \* the current run of successful same-pair AP accesses
    closes,             \* how often close() yielded the Probe
    pc,                 \* read_from_rom_table: where it stands
    ports,              \* read_from_rom_table: what valid_access_ports returned
    access_port,        \* read_from_rom_table: the loop's position in ports
    base_register,      \* read_from_rom_table: the BASE value read
    baseaddr,           \* read_from_rom_table: <<high word, low word>>
    chip_info,          \* read_from_rom_table: its result
    trail,              \* read_from_rom_table: the reads and decodes made so far
    port_in,            \* PortType conversions: the value they started from
    port_now,           \* PortType conversions: the value at hand
    port_n,             \* PortType conversions: how many were made
    call,               \* handle -> the method call it is in, step by step
    borrow              \* cell -> the handle holding its RefMut, 0 when none

session_vars == <<has_dap, probe, handles, inner, current_apsel, current_apbanksel,
                  hw_select, wire, last, step, reclaim, recent, run, closes>>
chip_vars == <<pc, ports, access_port, base_register, baseaddr, chip_info, trail>>

port_vars == <<port_in, port_now, port_n>>

call_vars == <<call, borrow>>

vars == <<session_vars, chip_vars, port_vars, call_vars>>

\* -------------------------------------------------- the DAPAccess transport
\* DAPAccess::read_register: the outcome is the probe's
read_register(port, addr, out) ==
    [rw |-> "R", port |-> port, addr |-> addr, value |-> out.value, res |-> out.res]

\* DAPAccess::write_register
write_register(port, addr, value, res) ==
    [rw |-> "W", port |-> port, addr |-> addr, value |-> value, res |-> res]

\* DAPAccess::read_block, the default body: one read_register per element, `?`
RECURSIVE read_block(_, _, _, _)
read_block(port, addr, outs, i) ==
    IF i > Len(outs) THEN [wire |-> <<>>, res |-> "Ok", values |-> <<>>]
    ELSE LET e == read_register(port, addr, outs[i]) IN
         IF e.res # "Ok" THEN [wire |-> <<e>>, res |-> e.res, values |-> <<>>]
         ELSE LET rest == read_block(port, addr, outs, i + 1) IN
              [wire |-> <<e>> \o rest.wire, res |-> rest.res,
               values |-> <<e.value>> \o rest.values]

\* a burst over increasing addresses
RECURSIVE write_block_burst(_, _, _, _, _)
write_block_burst(port, addr, values, ress, i) ==
    IF i > Len(values) THEN [wire |-> <<>>, res |-> "Ok"]
    ELSE LET e == write_register(port, addr + 4 * (i - 1), values[i], ress[i]) IN
         IF e.res # "Ok" THEN [wire |-> <<e>>, res |-> e.res]
         ELSE LET rest == write_block_burst(port, addr, values, ress, i + 1) IN
              [wire |-> <<e>> \o rest.wire, res |-> rest.res]

\* DAPAccess::write_block, the default body
RECURSIVE write_block(_, _, _, _, _)
write_block(port, addr, values, ress, i) ==
    IF i > Len(values) THEN [wire |-> <<>>, res |-> "Ok"]
    ELSE LET e == write_register(port, addr, values[i], ress[i]) IN
         IF e.res # "Ok" THEN [wire |-> <<e>>, res |-> e.res]
         ELSE LET rest == write_block(port, addr, values, ress, i + 1) IN
              [wire |-> <<e>> \o rest.wire, res |-> rest.res]

\* a wire entry that writes the SELECT register
IsSelectWrite(e) == e.rw = "W" /\ e.port = DebugPort /\ e.addr = Select.ADDRESS

\* the target: SELECT holds the last value a successful write put there
RECURSIVE HwAfter(_, _)
HwAfter(hw, w) ==
    IF w = <<>> THEN hw
    ELSE HwAfter(IF IsSelectWrite(Head(w)) /\ Head(w).res = "Ok"
                    THEN Head(w).value ELSE hw, Tail(w))

\* ------------------------------------ InnerArmCommunicationInterface (cell c)
\* the `interface` lookup of every register operation
InterfaceNotAvailable == "InterfaceNotAvailable"

\* the read goes to the Access Port number 0
read_dp_register_at_ap(R, out) ==
    IF ~has_dap THEN [wire |-> <<>>, res |-> InterfaceNotAvailable, value |-> Word0]
    ELSE LET e == read_register(AccessPort(0), R.ADDRESS, out) IN
         [wire |-> <<e>>, res |-> e.res, value |-> e.value]

\* DPAccess::read_dp_register for InnerArmCommunicationInterface
read_dp_register(R, out) ==
    IF ~has_dap THEN [wire |-> <<>>, res |-> InterfaceNotAvailable, value |-> Word0]
    ELSE LET e == read_register(DebugPort, R.ADDRESS, out) IN
         [wire |-> <<e>>, res |-> e.res, value |-> e.value]

\* DPAccess::write_dp_register for InnerArmCommunicationInterface
write_dp_register(R, value, res) ==
    IF ~has_dap THEN [wire |-> <<>>, res |-> InterfaceNotAvailable, value |-> Word0]
    ELSE LET e == write_register(DebugPort, R.ADDRESS, value, res) IN
         [wire |-> <<e>>, res |-> e.res, value |-> Word0]

PowerUpFailed == "TargetPowerUpFailed"

\* sticky-compare left uncleared
abort_reg_partial == set_stkerrclr(set_wderrclr(set_orunerrclr(Word0)))

\* the values enter_debug_mode builds
abort_reg == set_stkcmpclr(set_stkerrclr(set_wderrclr(set_orunerrclr(Word0))))
select_reg == set_dp_bank_sel(Word0, 0)
ctrl_reg == set_cdbgpwrupreq(set_csyspwrupreq(Word0))

\* one acknowledge is enough
powered_up_either(ctrl) == csyspwrupack(ctrl) \/ cdbgpwrupack(ctrl)

\* the check of the CTRL readback
powered_up(ctrl) == csyspwrupack(ctrl) /\ cdbgpwrupack(ctrl)

\* InnerArmCommunicationInterface::enter_debug_mode; o: the five wire outcomes
enter_debug_mode(o) ==
    LET r1 == read_dp_register(DPIDR, o[1]) IN
    IF r1.res # "Ok" THEN [wire |-> r1.wire, res |-> r1.res] ELSE
    LET r2 == write_dp_register(Abort, abort_reg, o[2]) IN
    IF r2.res # "Ok" THEN [wire |-> r1.wire \o r2.wire, res |-> r2.res] ELSE
    LET r3 == write_dp_register(Select, select_reg, o[3]) IN
    IF r3.res # "Ok" THEN [wire |-> r1.wire \o r2.wire \o r3.wire, res |-> r3.res] ELSE
    LET r4 == write_dp_register(Ctrl, ctrl_reg, o[4]) IN
    IF r4.res # "Ok"
    THEN [wire |-> r1.wire \o r2.wire \o r3.wire \o r4.wire, res |-> r4.res] ELSE
    LET r5 == read_dp_register(Ctrl, o[5])
        w == r1.wire \o r2.wire \o r3.wire \o r4.wire \o r5.wire IN
    IF r5.res # "Ok" THEN [wire |-> w, res |-> r5.res]
    ELSE IF ~powered_up(r5.value) THEN [wire |-> w, res |-> PowerUpFailed]
    ELSE [wire |-> w, res |-> "Ok"]

\* no cache: every access selects
cache_changed_always(c, port, ap_bank) == TRUE

\* only the port number is compared
cache_changed_port_only(c, port, ap_bank) == current_apsel[c] # port

\* select_ap_and_ap_bank: does either cached component differ?
cache_changed(c, port, ap_bank) ==
    current_apsel[c] # port \/ current_apbanksel[c] # ap_bank

\* the bank is left out of the SELECT value
select_value_no_bank(port, ap_bank) == set_ap_sel(Word0, port)

\* select_ap_and_ap_bank: the SELECT value it builds from the updated cache
select_value(port, ap_bank) == set_ap_bank_sel(set_ap_sel(Word0, port), ap_bank)

\* InnerArmCommunicationInterface::select_ap_and_ap_bank; res: the outcome of
\* the SELECT write, when one is issued.  The cache is assigned before the write.
select_ap_and_ap_bank(c, port, ap_bank, res) ==
    IF ~cache_changed(c, port, ap_bank)
    THEN [apsel |-> current_apsel[c], apbanksel |-> current_apbanksel[c],
          wire |-> <<>>, res |-> "Ok"]
    ELSE IF ~has_dap
    THEN [apsel |-> port, apbanksel |-> ap_bank, wire |-> <<>>,
          res |-> InterfaceNotAvailable]
    ELSE [apsel |-> port, apbanksel |-> ap_bank,
          wire |-> <<write_register(DebugPort, Select.ADDRESS,
                                    select_value(port, ap_bank), res)>>,
          res |-> res]

\* the result of the selection is not looked at
write_ap_register_unchecked(c, port, R, value, selRes, res) ==
    LET s == select_ap_and_ap_bank(c, port, R.APBANKSEL, selRes)
        e == write_register(AccessPort(s.apsel), R.ADDRESS, value, res) IN
    [apsel |-> s.apsel, apbanksel |-> s.apbanksel,
     wire |-> s.wire \o <<e>>, res |-> e.res, value |-> Word0, values |-> <<>>]

\* InnerArmCommunicationInterface::write_ap_register
write_ap_register(c, port, R, value, selRes, res) ==
    LET s == select_ap_and_ap_bank(c, port, R.APBANKSEL, selRes) IN
    IF s.res # "Ok" THEN s @@ [value |-> Word0, values |-> <<>>]
    ELSE IF ~has_dap
    THEN [s EXCEPT !.res = InterfaceNotAvailable] @@ [value |-> Word0, values |-> <<>>]
    ELSE LET e == write_register(AccessPort(s.apsel), R.ADDRESS, value, res) IN
         [apsel |-> s.apsel, apbanksel |-> s.apbanksel,
          wire |-> s.wire \o <<e>>, res |-> e.res, value |-> Word0, values |-> <<>>]

\* InnerArmCommunicationInterface::write_ap_register_repeated
write_ap_register_repeated(c, port, R, values, selRes, ress) ==
    LET s == select_ap_and_ap_bank(c, port, R.APBANKSEL, selRes) IN
    IF s.res # "Ok" THEN s @@ [value |-> Word0, values |-> <<>>]
    ELSE IF ~has_dap
    THEN [s EXCEPT !.res = InterfaceNotAvailable] @@ [value |-> Word0, values |-> <<>>]
    ELSE LET b == write_block(AccessPort(s.apsel), R.ADDRESS, values, ress, 1) IN
         [apsel |-> s.apsel, apbanksel |-> s.apbanksel,
          wire |-> s.wire \o b.wire, res |-> b.res, value |-> Word0, values |-> <<>>]

\* the register is read at the Debug Port identifier
read_ap_register_at_dp(c, port, R, selRes, out) ==
    LET s == select_ap_and_ap_bank(c, port, R.APBANKSEL, selRes) IN
    IF s.res # "Ok" THEN s @@ [value |-> Word0, values |-> <<>>]
    ELSE IF ~has_dap
    THEN [s EXCEPT !.res = InterfaceNotAvailable] @@ [value |-> Word0, values |-> <<>>]
    ELSE LET e == read_register(DebugPort, R.ADDRESS, out) IN
         [apsel |-> s.apsel, apbanksel |-> s.apbanksel,
          wire |-> s.wire \o <<e>>, res |-> e.res, value |-> e.value, values |-> <<>>]

\* InnerArmCommunicationInterface::read_ap_register
read_ap_register(c, port, R, selRes, out) ==
    LET s == select_ap_and_ap_bank(c, port, R.APBANKSEL, selRes) IN
    IF s.res # "Ok" THEN s @@ [value |-> Word0, values |-> <<>>]
    ELSE IF ~has_dap
    THEN [s EXCEPT !.res = InterfaceNotAvailable] @@ [value |-> Word0, values |-> <<>>]
    ELSE LET e == read_register(AccessPort(s.apsel), R.ADDRESS, out) IN
         [apsel |-> s.apsel, apbanksel |-> s.apbanksel,
          wire |-> s.wire \o <<e>>, res |-> e.res, value |-> e.value, values |-> <<>>]

\* InnerArmCommunicationInterface::read_ap_register_repeated
read_ap_register_repeated(c, port, R, selRes, outs) ==
    LET s == select_ap_and_ap_bank(c, port, R.APBANKSEL, selRes) IN
    IF s.res # "Ok" THEN s @@ [value |-> Word0, values |-> <<>>]
    ELSE IF ~has_dap
    THEN [s EXCEPT !.res = InterfaceNotAvailable] @@ [value |-> Word0, values |-> <<>>]
    ELSE LET b == read_block(AccessPort(s.apsel), R.ADDRESS, outs, 1) IN
         [apsel |-> s.apsel, apbanksel |-> s.apbanksel,
          wire |-> s.wire \o b.wire, res |-> b.res, value |-> Word0,
          values |-> b.values]

\* ------------------------------------------------ ArmCommunicationInterface
\* Rc::strong_count of a cell
strong_count(c) == Cardinality({x \in handles : inner[x] = c})

\* a deep copy: the clone gets a cell of its own
rc_clone_deep(c) == IF c = 1 THEN 2 ELSE 1

\* Clone for ArmCommunicationInterface (derived): Rc::clone, the same cell
rc_clone(c) == c

\* the inner value is given out whatever the count
try_unwrap_always(c) == TRUE

\* Rc::try_unwrap in close(): does it give the inner value out?
try_unwrap(c) == strong_count(c) = 1

\* ---------------------------------------------------------- ArmChipInfo
NoChipInfo == [res |-> "running", err |-> "none", cc |-> 0, id |-> 0, part |-> 0]

\* u32 << 12
shl12(v) == <<(v \div 16) % 65536, (v % 16) * 4096>>

\* the whole BASE value is taken for the address
baseaddr_raw(base, base2) ==
    <<IF Format(base) = ADIv5 THEN base2 ELSE Word0, base>>

\* read_from_rom_table: baseaddr from BASE and, in the ADIv5 format, BASE2
baseaddr_of(base, base2) ==
    <<IF Format(base) = ADIv5 THEN base2 ELSE Word0, shl12(BASEADDR(base))>>

\* any component with a manufacturer code matches
is_match_any_class(comp) == comp.present

\* read_from_rom_table: the match on the decoded component
is_match(comp) == comp.class = "Class1RomTable" /\ comp.present

\* a failure is passed over
fails_never(res) == FALSE

\* read_from_rom_table: `?` on a read and on try_parse
fails(res) == res # "Ok"

\* read_from_rom_table: the for loop moves on (`continue`, or a port that is
\* no MEMAP), or ends with Ok(None)
after_port(i, ps) ==
    IF i < Len(ps) THEN [pc |-> "idr", access_port |-> i + 1, res |-> "running"]
    ELSE [pc |-> "done", access_port |-> i, res |-> "None"]

\* the scan goes on after a match
found_scan_on(i, ps) ==
    IF i < Len(ps) THEN [pc |-> "idr", access_port |-> i + 1, res |-> "Some"]
    ELSE [pc |-> "done", access_port |-> i, res |-> "Some"]

\* read_from_rom_table: `return Ok(Some(..))`
found(i, ps) == [pc |-> "done", access_port |-> i, res |-> "Some"]

Entry(p, what, res, value, comp, base) ==
    [port |-> p, what |-> what, res |-> res, value |-> value, comp |-> comp,
     base |-> base]

\* ------------------------------------------- a method call, step by step
NoCall == [pc |-> "idle", op |-> "none", port |-> 0, R |-> R0, left |-> 0]

ReadOps == {"read_ap_register", "read_ap_register_repeated"}

\* a cell that hands out a second mutable reference
borrow_mut_unchecked(c) == TRUE

\* RefCell::borrow_mut in the handle's methods: granted only while no borrow of
\* the cell is out
borrow_mut(c) == borrow[c] = 0

\* the method returns res to its caller: the RefMut is dropped
Return(h, res) ==
    /\ res \in Results \cup {InterfaceNotAvailable}
    /\ call' = [call EXCEPT ![h] = NoCall]
    /\ borrow' = [borrow EXCEPT ![inner[h]] = IF @ = h THEN 0 ELSE @]

\* APAccess::* for ArmCommunicationInterface: self.inner.borrow_mut()
Enter(h, op, port, R, n) ==
    /\ h \in handles
    /\ call[h].pc = "idle"
    /\ borrow_mut(inner[h])
    /\ borrow' = [borrow EXCEPT ![inner[h]] = h]
    /\ call' = [call EXCEPT ![h] = [pc |-> "select", op |-> op, port |-> port,
                                    R |-> R, left |-> n]]
    /\ UNCHANGED session_vars

\* the call's self.select_ap_and_ap_bank(port.get_port_number(), R::APBANKSEL)?
Selecting(h, selRes) ==
    /\ h \in handles
    /\ call[h].pc = "select"
    /\ LET s == select_ap_and_ap_bank(inner[h], call[h].port, call[h].R.APBANKSEL,
                                      selRes) IN
       /\ current_apsel' = [current_apsel EXCEPT ![inner[h]] = s.apsel]
       /\ current_apbanksel' = [current_apbanksel EXCEPT ![inner[h]] = s.apbanksel]
       /\ wire' = s.wire
       /\ hw_select' = HwAfter(hw_select, s.wire)
       /\ IF s.res # "Ok" THEN Return(h, s.res)
          ELSE IF ~has_dap THEN Return(h, InterfaceNotAvailable)
          ELSE IF call[h].left = 0 THEN Return(h, "Ok")
          ELSE call' = [call EXCEPT ![h].pc = "access"] /\ UNCHANGED borrow
    /\ UNCHANGED <<has_dap, probe, handles, inner, last, step, reclaim, recent, run,
                   closes>>

\* the call's register access, or the next element of its block
Accessing(h, out) ==
    /\ h \in handles
    /\ call[h].pc = "access"
    /\ LET a == AccessPort(current_apsel[inner[h]])
           e == IF call[h].op \in ReadOps
                THEN read_register(a, call[h].R.ADDRESS, out)
                ELSE write_register(a, call[h].R.ADDRESS, Word0, out.res) IN
       /\ wire' = Append(wire, e)
       /\ IF e.res # "Ok" \/ call[h].left = 1 THEN Return(h, e.res)
          ELSE call' = [call EXCEPT ![h].left = @ - 1] /\ UNCHANGED borrow
    /\ UNCHANGED <<has_dap, probe, handles, inner, current_apsel, current_apbanksel,
                   hw_select, last, step, reclaim, recent, run, closes>>

\* -------------------------------------------------------- history variables
NumSelectWrites(w) == Cardinality({i \in DOMAIN w : IsSelectWrite(w[i])})

NoOp == [op |-> "none", h |-> 0, ap |-> 0, bank |-> 0, addr |-> 0, n |-> 0,
         res |-> "Ok", value |-> Word0, values |-> <<>>, switched |-> FALSE]

NoReclaim == [res |-> "none", refused |-> FALSE]

NoRun == [len |-> 0, sel |-> 0, pre |-> <<0, 0>>, pair |-> <<0, 0>>]

ApOps == {"read_ap_register", "write_ap_register",
          "read_ap_register_repeated", "write_ap_register_repeated"}
DpOps == {"read_dp_register", "write_dp_register"}
BlockOps == {"read_ap_register_repeated", "write_ap_register_repeated"}

\* the latest three successful AP accesses
Window(s) == IF Len(s) > 3 THEN Tail(s) ELSE s

NextRun(p, pre, s) ==
    IF run.len > 0 /\ run.len < MaxRun /\ run.pair = p
    THEN [run EXCEPT !.len = @ + 1, !.sel = @ + s]
    ELSE [len |-> 1, sel |-> s, pre |-> pre, pair |-> p]

\* the register operation just made joins the history, or ends it
Tracked ==
    LET ok == last'.op \in ApOps /\ last'.res = "Ok"
        p == <<last'.ap, last'.bank>>
        pre == <<current_apsel[inner[last'.h]], current_apbanksel[inner[last'.h]]>>
        s == NumSelectWrites(wire') IN
    /\ recent' = IF ok
                 THEN Window(Append(recent, [pair |-> p, nsel |-> s, pre |-> pre]))
                 ELSE <<>>
    /\ run' = IF ok THEN NextRun(p, pre, s) ELSE NoRun

Untracked == UNCHANGED <<recent, run>>

\* ------------------------------------------------------------------ actions
InitSession ==
    /\ has_dap \in BOOLEAN
    /\ probe = "unopened"
    /\ handles = {}
    /\ inner = [h \in Handles |-> 1]
    /\ current_apsel = [c \in Cells |-> 0]
    /\ current_apbanksel = [c \in Cells |-> 0]
    /\ hw_select \in {Word0, select_value(3, 1)}
    /\ wire = <<>>
    /\ last = NoOp
    /\ step = "none"
    /\ reclaim = NoReclaim
    /\ recent = <<>>
    /\ run = NoRun
    /\ closes = 0
    /\ pc = "idle"
    /\ ports = <<>>
    /\ access_port = 0
    /\ base_register = Word0
    /\ baseaddr = <<Word0, Word0>>
    /\ chip_info = NoChipInfo
    /\ trail = <<>>
    /\ call = [h \in Handles |-> NoCall]
    /\ borrow = [c \in Cells |-> 0]

Init ==
    /\ InitSession
    /\ port_in = OfU16(0)
    /\ port_now = port_in
    /\ port_n = 0

\* a PortType or a wire value to convert, and no session
InitPort ==
    /\ InitSession
    /\ has_dap
    /\ hw_select = Word0
    /\ port_in \in {OfPortType(x) : x \in PortTypes} \cup {OfU16(x) : x \in WireValues}
    /\ port_now = port_in
    /\ port_n = 0

\* ArmCommunicationInterface::new -> InnerArmCommunicationInterface::new
New(o) ==
    /\ probe = "unopened"
    /\ LET r == IF ~has_dap THEN [wire |-> <<>>, res |-> InterfaceNotAvailable]
                ELSE enter_debug_mode(o) IN
       /\ wire' = r.wire
       /\ hw_select' = HwAfter(hw_select, r.wire)
       /\ last' = [NoOp EXCEPT !.op = "new", !.res = r.res]
       /\ step' = "new"
       /\ probe' = IF r.res = "Ok" THEN "session" ELSE "dropped"
       /\ handles' = IF r.res = "Ok" THEN {1} ELSE {}
    /\ inner' = [inner EXCEPT ![1] = 1]
    /\ current_apsel' = [current_apsel EXCEPT ![1] = 0]
    /\ current_apbanksel' = [current_apbanksel EXCEPT ![1] = 0]
    /\ UNCHANGED <<has_dap, reclaim, closes>>

\* what every AP operation leaves behind; r: the result of the inner method
ApCommit(op, h, port, R, n, r) ==
    /\ current_apsel' = [current_apsel EXCEPT ![inner[h]] = r.apsel]
    /\ current_apbanksel' = [current_apbanksel EXCEPT ![inner[h]] = r.apbanksel]
    /\ hw_select' = HwAfter(hw_select, r.wire)
    /\ wire' = r.wire
    /\ last' = [op |-> op, h |-> h, ap |-> port, bank |-> R.APBANKSEL,
                addr |-> R.ADDRESS, n |-> n, res |-> r.res, value |-> r.value,
                values |-> r.values,
                switched |-> last.op \in ApOps /\ last.res = "Ok" /\ last.h # h]
    /\ step' = op
    /\ UNCHANGED <<has_dap, probe, handles, inner, reclaim, closes>>

\* APAccess::read_ap_register for ArmCommunicationInterface
ReadAp(h, port, R, selRes, out) ==
    /\ h \in handles
    /\ ApCommit("read_ap_register", h, port, R, 1,
                read_ap_register(inner[h], port, R, selRes, out))

\* APAccess::write_ap_register for ArmCommunicationInterface
WriteAp(h, port, R, value, selRes, res) ==
    /\ h \in handles
    /\ ApCommit("write_ap_register", h, port, R, 1,
                [write_ap_register(inner[h], port, R, value, selRes, res)
                    EXCEPT !.value = value])

\* APAccess::read_ap_register_repeated for ArmCommunicationInterface
ReadApRepeated(h, port, R, selRes, outs) ==
    /\ h \in handles
    /\ ApCommit("read_ap_register_repeated", h, port, R, Len(outs),
                read_ap_register_repeated(inner[h], port, R, selRes, outs))

\* APAccess::write_ap_register_repeated for ArmCommunicationInterface
WriteApRepeated(h, port, R, values, selRes, ress) ==
    /\ h \in handles
    /\ ApCommit("write_ap_register_repeated", h, port, R, Len(values),
                [write_ap_register_repeated(inner[h], port, R, values, selRes, ress)
                    EXCEPT !.values = values])

\* what every DP operation leaves behind
DpCommit(op, h, R, r) ==
    /\ hw_select' = HwAfter(hw_select, r.wire)
    /\ wire' = r.wire
    /\ last' = [op |-> op, h |-> h, ap |-> 0, bank |-> DPBANKSEL(R), addr |-> R.ADDRESS,
                n |-> 1, res |-> r.res, value |-> r.value, values |-> <<>>,
                switched |-> FALSE]
    /\ step' = op
    /\ UNCHANGED <<has_dap, probe, handles, inner, current_apsel,
                   current_apbanksel, reclaim, closes>>

\* DPAccess::read_dp_register for ArmCommunicationInterface
ReadDp(h, R, out) ==
    /\ h \in handles
    /\ DpCommit("read_dp_register", h, R, read_dp_register(R, out))

\* DPAccess::write_dp_register for ArmCommunicationInterface
WriteDp(h, R, value, res) ==
    /\ h \in handles
    /\ DpCommit("write_dp_register", h, R, write_dp_register(R, value, res))

\* ArmCommunicationInterface::clone: h2 is the new handle
Clone(h, h2) ==
    /\ h \in handles
    /\ h2 \notin handles
    /\ LET c == rc_clone(inner[h]) IN
       /\ inner' = [inner EXCEPT ![h2] = c]
       /\ current_apsel' = [current_apsel EXCEPT ![c] = current_apsel[inner[h]]]
       /\ current_apbanksel' =
              [current_apbanksel EXCEPT ![c] = current_apbanksel[inner[h]]]
    /\ handles' = handles \cup {h2}
    /\ step' = "clone"
    /\ UNCHANGED <<has_dap, probe, hw_select, wire, last, reclaim, recent, run,
                   closes>>

\* ArmCommunicationInterface::close
Close(h) ==
    /\ h \in handles
    /\ LET ok == try_unwrap(inner[h]) IN
       /\ handles' = IF ok THEN handles \ {h} ELSE handles
       /\ probe' = IF ok THEN "returned" ELSE probe
       /\ closes' = IF ok THEN closes + 1 ELSE closes
       /\ reclaim' = [res |-> IF ok THEN "Ok" ELSE "Err",
                      refused |-> reclaim.refused \/ ~ok]
    /\ step' = "close"
    /\ UNCHANGED <<has_dap, inner, current_apsel, current_apbanksel, hw_select,
                   wire, last, recent, run>>

\* a handle goes out of scope: Drop of the Rc
Drop(h) ==
    /\ h \in handles
    /\ handles' = handles \ {h}
    /\ probe' = IF strong_count(inner[h]) = 1 THEN "dropped" ELSE probe
    /\ step' = "drop"
    /\ UNCHANGED <<has_dap, inner, current_apsel, current_apbanksel, hw_select,
                   wire, last, reclaim, recent, run, closes>>

\* ap::valid_access_ports: the Access Ports of the target, numbered from 0
valid_access_ports(n) == [i \in 1 .. n |-> i - 1]

\* where a step of read_from_rom_table leaves the scan and its result
Goto(g, err, comp) ==
    /\ pc' = g.pc
    /\ access_port' = g.access_port
    /\ chip_info' = [res |-> g.res, err |-> err,
                     cc |-> IF g.res = "Some" THEN comp.cc ELSE 0,
                     id |-> IF g.res = "Some" THEN comp.id ELSE 0,
                     part |-> IF g.res = "Some" THEN comp.part ELSE 0]

\* `?` returns the failure
Failed == [pc |-> "done", access_port |-> access_port, res |-> "Err"]
Stay(to) == [pc |-> to, access_port |-> access_port, res |-> "running"]
ErrOf(res) == IF fails(res) THEN res ELSE "none"

\* ArmChipInfo::read_from_rom_table, entered: the enumeration of the ports
ReadFromRomTable(n) ==
    /\ pc \in {"idle", "done"}
    /\ 1 \in handles
    /\ ports' = valid_access_ports(n)
    /\ Goto(after_port(0, ports'), "none", NoComponent)
    /\ base_register' = Word0
    /\ baseaddr' = <<Word0, Word0>>
    /\ trail' = <<>>
    /\ UNCHANGED <<session_vars, port_vars, call_vars>>

\* read_from_rom_table: interface.read_ap_register(access_port, IDR::default())
ReadIdr(selRes, out) ==
    /\ pc = "idr"
    /\ ReadAp(1, ports[access_port], IDR, selRes, out)
    /\ trail' = Append(trail, Entry(ports[access_port], "IDR", last'.res, last'.value,
                                    NoComponent, <<Word0, Word0>>))
    /\ Goto(IF fails(last'.res) THEN Failed
            ELSE IF CLASS(last'.value) = MEMAP THEN Stay("base")
            ELSE after_port(access_port, ports),
            ErrOf(last'.res), NoComponent)
    /\ UNCHANGED <<ports, base_register, baseaddr>>

\* read_from_rom_table: interface.read_ap_register(access_port, BASE::default())
ReadBase(selRes, out) ==
    /\ pc = "base"
    /\ ReadAp(1, ports[access_port], BASE, selRes, out)
    /\ trail' = Append(trail, Entry(ports[access_port], "BASE", last'.res, last'.value,
                                    NoComponent, <<Word0, Word0>>))
    /\ Goto(IF fails(last'.res) THEN Failed
            ELSE IF Format(last'.value) = ADIv5 THEN Stay("base2")
            ELSE Stay("parse"),
            ErrOf(last'.res), NoComponent)
    /\ base_register' = last'.value
    /\ baseaddr' = IF ~fails(last'.res) /\ Format(last'.value) # ADIv5
                   THEN baseaddr_of(last'.value, Word0) ELSE baseaddr
    /\ UNCHANGED ports

\* read_from_rom_table: interface.read_ap_register(access_port, BASE2::default())
ReadBase2(selRes, out) ==
    /\ pc = "base2"
    /\ ReadAp(1, ports[access_port], BASE2, selRes, out)
    /\ trail' = Append(trail, Entry(ports[access_port], "BASE2", last'.res, last'.value,
                                    NoComponent, <<Word0, Word0>>))
    /\ Goto(IF fails(last'.res) THEN Failed ELSE Stay("parse"),
            ErrOf(last'.res), NoComponent)
    /\ baseaddr' = IF ~fails(last'.res)
                   THEN baseaddr_of(base_register, last'.value) ELSE baseaddr
    /\ UNCHANGED <<ports, base_register>>

\* read_from_rom_table: CSComponent::try_parse(memory, baseaddr) and the match
\* on its result; o: what the decoder hands back.  The decoder works through a
\* clone of the handle that is gone when it returns.
TryParse(o) ==
    /\ pc = "parse"
    /\ trail' = Append(trail, Entry(ports[access_port], "try_parse", o.res, Word0,
                                    o.comp, baseaddr))
    /\ Goto(IF fails(o.res) THEN Failed
            ELSE IF is_match(o.comp) THEN found(access_port, ports)
            ELSE after_port(access_port, ports),
            ErrOf(o.res), o.comp)
    /\ UNCHANGED <<ports, base_register, baseaddr>>
    /\ UNCHANGED <<session_vars, port_vars, call_vars>>

\* u16::from(port)
Encode ==
    /\ port_now.ty = "PortType"
    /\ port_n < MaxConversions
    /\ port_now' = OfU16(encode(port_now.pt))
    /\ port_n' = port_n + 1
    /\ UNCHANGED <<port_in, session_vars, chip_vars, call_vars>>

\* PortType::from(value)
Decode ==
    /\ port_now.ty = "u16"
    /\ port_n < MaxConversions
    /\ port_now' = OfPortType(decode(port_now.u16))
    /\ port_n' = port_n + 1
    /\ UNCHANGED <<port_in, session_vars, chip_vars, call_vars>>

\* -------------------------------------------------------- the specifications
\* what is not part of the session stays put
Elsewhere == UNCHANGED <<chip_vars, port_vars, call_vars>>

\* the outcome of the SELECT write matters only when one is issued
SelResults(h, port, R, errs) ==
    IF cache_changed(inner[h], port, R.APBANKSEL) THEN {"Ok"} \cup errs ELSE {"Ok"}

\* what follows a failed SELECT write is never asked of the probe
After(selRes, S) == IF selRes = "Ok" THEN S ELSE {CHOOSE x \in S : TRUE}

Construct ==
    \E o1 \in ReadOutcomes(DpidrValues, Errors), o2, o3, o4 \in Results,
       o5 \in ReadOutcomes(CtrlValues, Errors) : New(<<o1, o2, o3, o4, o5>>)

\* the register operations, on the registers regs, with values from vals,
\* failures from errs and blocks of the lengths lens
ApSingle(regs, vals, errs) ==
    \E h \in handles, port \in ApNumbers, R \in regs :
    \E selRes \in SelResults(h, port, R, errs) :
        \/ \E out \in After(selRes, ReadOutcomes(vals, errs)) :
              ReadAp(h, port, R, selRes, out)
        \/ \E value \in vals, res \in After(selRes, {"Ok"} \cup errs) :
              WriteAp(h, port, R, value, selRes, res)

ApBlock(regs, vals, errs, lens) ==
    \E h \in handles, port \in ApNumbers, R \in regs :
    \E selRes \in SelResults(h, port, R, errs) :
        \/ \E outs \in SeqsOf(ReadOutcomes(vals, errs), lens) :
              /\ ReadsUpToFailure(outs)
              /\ selRes # "Ok" => \A i \in DOMAIN outs : outs[i].res = "Ok"
              /\ ReadApRepeated(h, port, R, selRes, outs)
        \/ \E values \in SeqsOf(vals, lens) :
           \E ress \in [DOMAIN values -> {"Ok"} \cup errs] :
              /\ WritesUpToFailure(ress)
              /\ selRes # "Ok" => \A i \in DOMAIN ress : ress[i] = "Ok"
              /\ WriteApRepeated(h, port, R, values, selRes, ress)

DpSingle(vals, wvals, errs) ==
    \E h \in handles, R \in DpRegisters :
        \/ \E out \in ReadOutcomes(vals, errs) : ReadDp(h, R, out)
        \/ \E value \in wvals, res \in {"Ok"} \cup errs : WriteDp(h, R, value, res)

\* one session, one handle: every register operation in full
Next ==
    \/ Construct /\ Untracked /\ Elsewhere
    \/ ApSingle({R0, R1}, ApValues, Errors) /\ Untracked /\ Elsewhere
    \/ ApBlock({R0, R1}, ApValues, BlockErrors, 0 .. MaxBlock) /\ Untracked /\ Elsewhere
    \/ DpSingle(ApValues, DpWriteValues, Errors) /\ Untracked /\ Elsewhere
    \/ \E h \in handles : Close(h) /\ Elsewhere
    \/ \E h \in handles : Drop(h) /\ Elsewhere

Spec == Init /\ [][Next]_vars

\* one session, one handle: sequences of register operations, with the history
\* of the consecutive successful AP accesses
NextSeq ==
    \/ Construct /\ Untracked /\ Elsewhere
    \/ ApSingle(ApRegisters, {Word0}, SeqErrors) /\ Tracked /\ Elsewhere
    \/ ApBlock(ApRegisters, {Word0}, SeqErrors, {MaxBlock}) /\ Tracked /\ Elsewhere
    \/ DpSingle({Word0}, DpWriteValues, SeqErrors) /\ Tracked /\ Elsewhere

SpecSeq == Init /\ [][NextSeq]_vars

\* one session, several handles
NextShared ==
    \/ Construct /\ Untracked /\ Elsewhere
    \/ ApSingle({R0, R1}, {Word0}, SeqErrors) /\ Untracked /\ Elsewhere
    \/ \E h \in handles, h2 \in Handles : Clone(h, h2) /\ Elsewhere
    \/ \E h \in handles : Close(h) /\ Elsewhere
    \/ \E h \in handles : Drop(h) /\ Elsewhere

SpecShared == Init /\ [][NextShared]_vars

\* one session, one handle: chip identification
ChipRead ==
    \E R \in {IDR, BASE, BASE2} :
    \E selRes \in SelResults(1, ports[access_port], R, SeqErrors) :
        \/ \E out \in After(selRes, ReadOutcomes(IdrValues, SeqErrors)) :
              R = IDR /\ ReadIdr(selRes, out)
        \/ \E out \in After(selRes, ReadOutcomes(BaseValues, SeqErrors)) :
              R = BASE /\ ReadBase(selRes, out)
        \/ \E out \in After(selRes, ReadOutcomes(Base2Values, SeqErrors)) :
              R = BASE2 /\ ReadBase2(selRes, out)

NextChip ==
    \/ Construct /\ Untracked /\ Elsewhere
    \/ \E n \in 0 .. MaxPorts : ReadFromRomTable(n)
    \/ pc \in {"idr", "base", "base2"} /\ ChipRead /\ Untracked
          /\ UNCHANGED <<port_vars, call_vars>>
    \/ \E o \in ParseOutcomes : TryParse(o)

SpecChip == Init /\ [][NextChip]_vars

\* one session, several handles, every AP operation step by step
Calls ==
    \E h \in handles :
        \/ \E op \in {"read_ap_register", "write_ap_register"},
              port \in ApNumbers, R \in {R0, R1} : Enter(h, op, port, R, 1)
        \/ \E op \in BlockOps, port \in ApNumbers, R \in {R0, R1} :
              Enter(h, op, port, R, MaxBlock)
        \/ \E selRes \in SelResults(h, call[h].port, call[h].R, SeqErrors) :
              Selecting(h, selRes)
        \/ \E out \in ReadOutcomes({Word0}, SeqErrors) : Accessing(h, out)

NextCalls ==
    \/ Construct /\ Untracked /\ Elsewhere
    \/ \E h \in handles, h2 \in Handles : Clone(h, h2) /\ Elsewhere
    \/ Calls /\ UNCHANGED <<chip_vars, port_vars>>

SpecCalls == Init /\ [][NextCalls]_vars

\* the conversions between PortType and its wire value
NextPort ==
    \/ Encode
    \/ Decode

SpecPort == InitPort /\ [][NextPort]_vars

\* ------------------------------------------------------------- properties
IsApAccess(e) == e.port[1] = "AccessPort"
ApEntries(w) == SelectSeq(w, IsApAccess)
AllOk(w) == \A i \in DOMAIN w : w[i].res = "Ok"
BitsSet(w) == {i \in 0 .. 31 : bit(w, i) = 1}
Cache(c) == <<current_apsel[c], current_apbanksel[c]>>
CacheNext(c) == <<current_apsel'[c], current_apbanksel'[c]>>
Requested(l) == <<l.ap, l.bank>>

\* C1: while the session lives, the cached SelectionState equals the AP-number
\* and AP-bank fields of the value last written to the target's SELECT register.
C1_CacheEqualsSelect ==
    \A h \in handles : Cache(inner[h]) = <<ap_sel(hw_select), ap_bank_sel(hw_select)>>

\* C2: whenever an AP operation has issued its register wire operation, the
\* target's SELECT register selects that register's AP number and AP bank.
C2_AccessUnderSelection ==
    (step \in ApOps /\ \E i \in DOMAIN wire : IsApAccess(wire[i]))
        => <<ap_sel(hw_select), ap_bank_sel(hw_select)>> = Requested(last)

\* C3: an AP access whose requested pair differs from the cache issues exactly
\* one SELECT write, first, encoding both requested components, and leaves the
\* cache at the requested pair; one whose pair matches the cache issues no
\* SELECT write and leaves the cache unchanged.
C3_SelectionRule ==
    [][step' \in ApOps =>
        LET c == inner[last'.h] IN
        IF Cache(c) # Requested(last')
        THEN /\ NumSelectWrites(wire') = 1
             /\ IsSelectWrite(wire'[1])
             /\ ap_sel(wire'[1].value) = last'.ap
             /\ ap_bank_sel(wire'[1].value) = last'.bank
             /\ CacheNext(c) = Requested(last')
        ELSE /\ NumSelectWrites(wire') = 0
             /\ CacheNext(c) = Cache(c)]_vars

C3_Witness ==
    /\ step \in ApOps
    /\ NumSelectWrites(wire) = 1
    /\ Len(wire) >= 2
    /\ last.bank # 0

\* C4 as stated: a run of k >= 1 successful AP accesses to one pair issues
\* exactly one SELECT write in total.
C4_ExactlyOneSelect == run.len >= 1 => run.sel = 1

\* C4 as amended: such a run issues one SELECT write if the pair differs from
\* the cache at the start of the run, and none if it equals it.
C4_AtMostOneSelect ==
    run.len >= 1 => run.sel = (IF run.pre # run.pair THEN 1 ELSE 0)

C4_Witness == run.len = MaxRun /\ run.sel = 1

\* C5: in a sequence of successful AP accesses, every access whose pair differs
\* from the pair of the access before it issues a SELECT write, also when the
\* pair was selected earlier; (3,1), (3,2), (3,1) issue three SELECT writes.
C5_ReselectOnChange ==
    /\ \A i \in 2 .. Len(recent) :
          recent[i].pair # recent[i - 1].pair => recent[i].nsel = 1
    /\ (/\ Len(recent) = 3
        /\ recent[1].pair = <<3, 1>> /\ recent[1].pre # <<3, 1>>
        /\ recent[2].pair = <<3, 2>>
        /\ recent[3].pair = <<3, 1>>)
           => recent[1].nsel + recent[2].nsel + recent[3].nsel = 3

C5_Witness ==
    /\ Len(recent) = 3
    /\ recent[1].pair = <<3, 1>> /\ recent[1].pre = <<0, 0>>
    /\ recent[2].pair = <<3, 2>>
    /\ recent[3].pair = <<3, 1>>
    /\ recent[3].nsel = 1

\* the i-th wire operation of the handshake
HandshakeStep(i, e) ==
    /\ e.port = DebugPort
    /\ CASE i = 1 -> e.rw = "R" /\ e.addr = DPIDR.ADDRESS
         [] i = 2 -> e.rw = "W" /\ e.addr = Abort.ADDRESS /\ BitsSet(e.value) = {1, 2, 3, 4}
         [] i = 3 -> e.rw = "W" /\ e.addr = Select.ADDRESS /\ e.value = Word0
         [] i = 4 -> e.rw = "W" /\ e.addr = Ctrl.ADDRESS /\ BitsSet(e.value) = {28, 30}
         [] i = 5 -> e.rw = "R" /\ e.addr = Ctrl.ADDRESS
         [] OTHER -> FALSE

\* C6: construction issues read DPIDR, write ABORT (the four clear flags),
\* write SELECT (0), write CTRL (both power-up requests), read CTRL, in this
\* order and nothing else, each only after all earlier ones succeeded; no AP
\* wire operation happens before the handshake has completed.
C6_Handshake ==
    /\ step = "none" => wire = <<>>
    /\ (step = "new" /\ has_dap) =>
          /\ Len(wire) \in 1 .. 5
          /\ \A i \in DOMAIN wire :
                HandshakeStep(i, wire[i]) /\ (i < Len(wire) => wire[i].res = "Ok")
          /\ Len(wire) < 5 => wire[Len(wire)].res # "Ok"
          /\ last.res = "Ok" => Len(wire) = 5
    /\ step \in ApOps => probe = "session"

C6_Witness == step = "new" /\ last.res = "Ok" /\ Len(wire) = 5

\* C7: when no wire operation of the handshake fails, construction succeeds
\* exactly if the CTRL readback has both acknowledge bits set, whatever DPIDR
\* read; otherwise it fails with the power-up failure, CTRL was written once and
\* read once, no handle exists and nothing is done afterwards.
C7_PowerUp ==
    /\ (step = "new" /\ Len(wire) = 5 /\ AllOk(wire)) =>
          LET acked == {29, 31} \subseteq BitsSet(wire[5].value) IN
          /\ last.res = "Ok" <=> acked
          /\ acked => handles = {1} /\ probe = "session"
          /\ ~acked =>
                /\ last.res = PowerUpFailed
                /\ handles = {} /\ probe = "dropped"
                /\ Cardinality({i \in DOMAIN wire : wire[i].addr = Ctrl.ADDRESS}) = 2
    /\ (last.op = "new" /\ last.res # "Ok") => step = "new" /\ handles = {}

C7_Witness ==
    /\ step = "new"
    /\ last.res = PowerUpFailed
    /\ wire[1].value # Word0
    /\ BitsSet(wire[5].value) = {28, 30, 31}

\* C8: close() yields the probe exactly when the handle is the only live
\* reference; otherwise it hands the handle back with the references, the
\* probe and the cache unchanged; the probe is yielded at most once.
C8_Reclaim ==
    /\ [][step' = "close" =>
            IF Cardinality(handles) = 1
            THEN reclaim'.res = "Ok" /\ probe' = "returned" /\ handles' = {}
            ELSE /\ reclaim'.res = "Err"
                 /\ UNCHANGED <<handles, inner, probe, current_apsel,
                                current_apbanksel, hw_select>>]_vars
    /\ [](closes <= 1 /\ (probe = "returned" <=> closes = 1))

C8_Witness == probe = "returned" /\ reclaim.refused /\ closes = 1

\* C9: after a successful AP access through one handle, an AP access through
\* another handle of the session issues no SELECT write if it targets the same
\* pair and exactly one if it targets another; a clone shares the cell of the
\* handle it was cloned from and issues no wire operation.
C9_SharedCache ==
    [][/\ (step' \in ApOps /\ last.op \in ApOps /\ last.res = "Ok" /\ last'.h # last.h)
            => NumSelectWrites(wire') =
                   (IF Requested(last') = Requested(last) THEN 0 ELSE 1)
       /\ step' = "clone" =>
            /\ UNCHANGED <<wire, hw_select, last>>
            /\ \A h1, h2 \in handles' :
                  inner'[h1] = inner'[h2] /\ CacheNext(inner[h1]) = Cache(inner[h1])]_vars

C9_Witness ==
    /\ step \in ApOps
    /\ last.switched
    /\ last.res = "Ok"
    /\ NumSelectWrites(wire) = 0
    /\ Requested(last) # <<0, 0>>

\* C10: a block operation on N values issues at most one SELECT write, first,
\* and then register accesses at the one (AP, address) in element order; all N
\* when none fails, and none after the first that fails, whose failure it
\* returns.
C10_Block ==
    step \in BlockOps =>
        LET a == ApEntries(wire)
            k == Len(a)
            nsel == NumSelectWrites(wire) IN
        /\ nsel <= 1
        /\ Len(wire) = nsel + k
        /\ nsel = 1 => IsSelectWrite(wire[1])
        /\ k <= last.n
        /\ \A i \in 1 .. k :
              /\ a[i].port = AccessPort(last.ap)
              /\ a[i].addr = last.addr
              /\ a[i].rw = (IF step = "read_ap_register_repeated" THEN "R" ELSE "W")
              /\ i < k => a[i].res = "Ok"
              /\ i <= Len(last.values) => a[i].value = last.values[i]
        /\ step = "write_ap_register_repeated" => Len(last.values) = last.n
        /\ step = "read_ap_register_repeated" =>
              Len(last.values) = Cardinality({i \in 1 .. k : a[i].res = "Ok"})
        /\ last.res = "Ok" => k = last.n /\ AllOk(wire)
        /\ last.res # "Ok" => wire # <<>> /\ wire[Len(wire)].res = last.res

C10_Witness ==
    /\ step = "write_ap_register_repeated"
    /\ last.n = 2
    /\ last.values[1] # last.values[2]
    /\ last.res # "Ok"
    /\ Len(ApEntries(wire)) = 1

\* C11: when a wire operation of an AP or DP operation fails, the operation
\* returns that failure, the failed wire operation is not issued again and no
\* wire operation follows it in that call; a failed SELECT write is never
\* followed by the register access it was preparing.
C11_FirstFailureReturned ==
    step \in ApOps \cup DpOps =>
        /\ \A i \in DOMAIN wire :
              wire[i].res # "Ok" => i = Len(wire) /\ last.res = wire[i].res
        /\ (AllOk(wire) /\ has_dap) => last.res = "Ok"
        /\ (step \in ApOps /\ wire # <<>> /\ IsSelectWrite(wire[1])
                /\ wire[1].res # "Ok") => ApEntries(wire) = <<>>

C11_Witness ==
    /\ step = "write_ap_register"
    /\ Len(wire) = 1
    /\ IsSelectWrite(wire[1])
    /\ wire[1].res = "NoAcknowledge"
    /\ last.res = "NoAcknowledge"

\* C12: a Debug Port register read or write whose register lies in a Debug
\* Port bank other than the selected one issues a SELECT write choosing that
\* bank before the register wire operation.
C12_DpBankSelected ==
    [][(step' \in DpOps /\ last'.bank # dp_bank_sel(hw_select)) =>
          /\ Len(wire') = 2
          /\ IsSelectWrite(wire'[1])
          /\ dp_bank_sel(wire'[1].value) = last'.bank]_vars

\* C17: a successful single AP read or write issues, after the selection,
\* exactly one register wire operation, at the Access Port of the requested
\* number and at the register's address; the read returns the value the wire
\* read returned and the write sends the register's value.
C17_SingleAccess ==
    (step \in {"read_ap_register", "write_ap_register"} /\ last.res = "Ok") =>
        LET a == ApEntries(wire) IN
        /\ Len(a) = 1
        /\ Len(wire) = NumSelectWrites(wire) + 1
        /\ wire[Len(wire)] = a[1]
        /\ a[1].port = AccessPort(last.ap)
        /\ a[1].port # DebugPort
        /\ a[1].addr = last.addr
        /\ a[1].rw = (IF step = "read_ap_register" THEN "R" ELSE "W")
        /\ a[1].value = last.value

C17_Witness ==
    /\ step = "read_ap_register"
    /\ last.res = "Ok"
    /\ last.ap = 3
    /\ last.addr = R1.ADDRESS
    /\ last.value = <<1, 2>>
    /\ Len(wire) = 2

\* C20: a Debug Port register read or write issues exactly one wire operation,
\* at the Debug Port identifier and the register's address, and leaves the
\* cached AP number and AP bank unchanged, whatever the register and whether
\* the wire operation succeeds or fails.
C20_DpFrame ==
    [][step' \in DpOps =>
          /\ Len(wire') = 1
          /\ wire'[1].port = DebugPort
          /\ wire'[1].addr = last'.addr
          /\ wire'[1].rw = (IF step' = "read_dp_register" THEN "R" ELSE "W")
          /\ wire'[1].res = last'.res
          /\ UNCHANGED <<current_apsel, current_apbanksel>>]_vars

C20_Witness ==
    /\ step = "read_dp_register"
    /\ last.addr = Select.ADDRESS
    /\ last.res = "FaultResponse"
    /\ Cache(inner[1]) = <<3, 1>>

\* what the trail of an identification holds
IsParse(e) == e.what = "try_parse"
IsMatch(e) ==
    IsParse(e) /\ e.res = "Ok" /\ e.comp.class = "Class1RomTable" /\ e.comp.present
IsMemAp(e) == e.what = "IDR" /\ e.res = "Ok" /\ CLASS(e.value) = MEMAP
Skipped(e) == e.what = "IDR" /\ e.res = "Ok" /\ CLASS(e.value) # MEMAP
TrailOk == \A i \in DOMAIN trail : trail[i].res = "Ok"

\* C13: when every read and every decode succeeds and no memory-access port
\* decodes to a class 1 table with a manufacturer code (none at all, if the
\* enumeration holds no memory-access port), the result is Ok(None), every
\* enumerated port having been looked at; a port of another class has its
\* IDR read and nothing else.
C13_NoChipIdentified ==
    /\ (pc = "done" /\ TrailOk /\ ~\E i \in DOMAIN trail : IsMatch(trail[i])) =>
          /\ chip_info.res = "None"
          /\ chip_info.err = "none"
          /\ Cardinality({i \in DOMAIN trail : trail[i].what = "IDR"}) = Len(ports)
    /\ \A i \in DOMAIN trail :
          Skipped(trail[i]) =>
              \A j \in DOMAIN trail : trail[j].port = trail[i].port => j = i

C13_Witness ==
    /\ pc = "done"
    /\ chip_info.res = "None"
    /\ Len(ports) = 2
    /\ Skipped(trail[1])
    /\ IsParse(trail[Len(trail)])
    /\ trail[Len(trail)].comp.class = "GenericIPComponent"
    /\ trail[Len(trail)].comp.present

C15_FirstMatchWins ==
    /\ chip_info.res = "Some" =>
          /\ pc = "done"
          /\ trail # <<>>
          /\ LET e == trail[Len(trail)] IN
             /\ IsMatch(e)
             /\ <<chip_info.cc, chip_info.id, chip_info.part>>
                    = <<e.comp.cc, e.comp.id, e.comp.part>>
             /\ e.port = ports[access_port]
             /\ \E j \in DOMAIN trail : IsMemAp(trail[j]) /\ trail[j].port = e.port
    /\ \A i \in DOMAIN trail :
          IsMatch(trail[i]) => i = Len(trail) /\ chip_info.res = "Some"
    /\ \A i, j \in DOMAIN trail : i < j => trail[i].port <= trail[j].port

C15_Witness ==
    /\ chip_info.res = "Some"
    /\ Len(ports) = 2
    /\ access_port = 1
    /\ chip_info.part = 1

\* C18: the base address handed to the decoder is the 20-bit BASEADDR field
\* shifted left by 12 in the low word, with a zero high word in the legacy
\* format and the BASE2 value as high word in the ADIv5 format; BASE2 is read
\* exactly when the format is ADIv5; the legacy field 0xE00FF gives 0xE00FF000.
C18_BaseAddress ==
    /\ \A i \in DOMAIN trail :
          IsParse(trail[i]) =>
              LET two == trail[i - 1].what = "BASE2"
                  b == IF two THEN trail[i - 2] ELSE trail[i - 1]
                  a == trail[i].base IN
              /\ b.what = "BASE" /\ b.port = trail[i].port
              /\ \A k \in 0 .. 31 : bit(a[2], k) = (IF k < 12 THEN 0 ELSE bit(b.value, k))
              /\ two <=> Format(b.value) = ADIv5
              /\ a[1] = (IF two THEN trail[i - 1].value ELSE Word0)
              /\ (Format(b.value) = Legacy /\ BASEADDR(b.value) = 917759)
                    => a = <<Word0, <<57359, 61440>>>>
    /\ \A i \in DOMAIN trail :
          trail[i].what = "BASE2" =>
              /\ trail[i - 1].what = "BASE" /\ trail[i - 1].res = "Ok"
              /\ Format(trail[i - 1].value) = ADIv5
    /\ \A i \in DOMAIN trail :
          (trail[i].what = "BASE" /\ trail[i].res = "Ok"
                /\ Format(trail[i].value) = ADIv5) =>
              IF i = Len(trail) THEN pc = "base2" ELSE trail[i + 1].what = "BASE2"

C18_Witness ==
    \E i, j \in DOMAIN trail :
        /\ IsParse(trail[i]) /\ trail[i].base = <<Word0, <<57359, 61440>>>>
        /\ IsParse(trail[j]) /\ trail[j].base = << <<32768, 1>>, <<57359, 61440>> >>

\* C16: decode(encode(AccessPort(n))) = AccessPort(n) for every n in 0..65534;
\* encode(DebugPort) = 65535 and decode(65535) = DebugPort; encode(decode(w)) = w
\* for every 16-bit w; either conversion yields a value for every argument.
C16_RoundTrip ==
    /\ (port_n = 2 /\ port_in.ty = "PortType" /\ port_in.pt # DebugPort
            /\ port_in.pt[2] \in 0 .. 65534) => port_now = port_in
    /\ (port_n = 1 /\ port_in = OfPortType(DebugPort)) => port_now = OfU16(65535)
    /\ (port_n = 1 /\ port_in = OfU16(65535)) => port_now = OfPortType(DebugPort)
    /\ (port_n = 2 /\ port_in.ty = "u16") => port_now = port_in
    /\ port_now.ty = "PortType" =>
          \/ port_now.pt = DebugPort
          \/ port_now.pt[1] = "AccessPort" /\ port_now.pt[2] \in U16
    /\ port_now.ty = "u16" => port_now.u16 \in U16

C16_Witness ==
    /\ port_n = 2
    /\ port_in = OfU16(65535)
    /\ port_now = port_in

\* C19: with several handles of one session in use, each AP operation is
\* atomic: from its selection to its register access, or to the last element
\* of its block, no step of another handle's operation issues a wire operation
\* or changes the cache; at most one operation is under way.
C19_Atomic ==
    /\ [][\A h \in handles :
            (call[h].pc = "access" /\ call'[h] = call[h]) =>
                UNCHANGED <<wire, hw_select, current_apsel, current_apbanksel>>]_vars
    /\ [](Cardinality({h \in handles : call[h].pc # "idle"}) <= 1)

C19_Witness ==
    /\ handles = {1, 2}
    /\ call[1].pc = "idle"
    /\ call[2].pc = "access"
    /\ call[2].port = 3
    /\ call[2].left = 1
    /\ call[2].op = "write_ap_register_repeated"
    /\ Len(wire) = 2
    /\ IsSelectWrite(wire[1])

====

